---------------------------- MODULE Spec2Model ----------------------------
(***************************************************************************)
(* DepthInstance3DBoxes (mmdet3d/core/bbox/structures/depth_box3d.py).    *)
(*                                                                         *)
(* Numbers.  The program computes on floating-point tensors.  The model   *)
(* computes exactly in the ring Z[sqrt 2][1/2]: a number is a triple      *)
(* <<a, b, e>> that stands for (a + b*sqrt(2)) / 2^e, kept in lowest      *)
(* terms, so that two numbers are equal iff their triples are equal.      *)
(* Angles are integer multiples of pi/4; the sine and the cosine of such  *)
(* an angle lie in the ring, so every operation of the program is         *)
(* computed without rounding.  The yaw column of the table (column 6)     *)
(* holds its angle in units of pi/4.  Floating-point rounding is not      *)
(* modelled.                                                               *)
(***************************************************************************)
EXTENDS Integers, Sequences, FiniteSets

VARIABLES
    tensor,     \* self.tensor: N rows of box_dim numbers
    with_yaw,   \* self.with_yaw
    points,     \* the caller's point array, M rows of 3 numbers
    ret,        \* what the last call returned
    err,        \* the exception the last call raised, or "none"
    last,       \* the last call: its arguments and the state before it
    tensor0,    \* the table as constructed
    nops        \* mutating calls made so far

vars == <<tensor, with_yaw, points, ret, err, last, tensor0, nops>>

(************************* bounds of the model *****************************)
MaxOps == 2      \* mutating calls (rotate, flip) made on one BoxSet
MaxRows == 1     \* rows of a BoxSet that is rotated and flipped
MaxAttrs == 2    \* trailing attribute columns: box_dim ranges over 7 .. 7 + MaxAttrs
MaxYaw == 8      \* queried boxes have yaw in -MaxYaw .. MaxYaw (units of pi/4)

(************************* program constants *******************************)
PI == 4          \* np.pi, in units of pi/4
BoxWidth == 7    \* (x, y, z, x_size, y_size, z_size, yaw): the stride of flip's slices

(************************* exact arithmetic ********************************)
RECURSIVE Norm(_, _, _)
Norm(a, b, e) ==
    IF e > 0 /\ a % 2 = 0 /\ b % 2 = 0
    THEN Norm(a \div 2, b \div 2, e - 1)
    ELSE <<a, b, e>>

Num(n) == <<n, 0, 0>>

Zero == Num(0)

One == Num(1)

Half == <<1, 0, 1>>

Add(x, y) ==
    IF x = Zero THEN y
    ELSE IF y = Zero THEN x
    ELSE IF x[3] = y[3] THEN Norm(x[1] + y[1], x[2] + y[2], x[3])
    ELSE LET e == IF x[3] > y[3] THEN x[3] ELSE y[3]
             fx == 2 ^ (e - x[3])
             fy == 2 ^ (e - y[3])
         IN  Norm(x[1] * fx + y[1] * fy, x[2] * fx + y[2] * fy, e)

Neg(x) == <<-x[1], -x[2], x[3]>>

Sub(x, y) == Add(x, Neg(y))

Mul(x, y) ==
    IF x = Zero \/ y = Zero THEN Zero
    ELSE IF x = One THEN y
    ELSE IF y = One THEN x
    ELSE Norm(x[1] * y[1] + 2 * x[2] * y[2], x[1] * y[2] + x[2] * y[1], x[3] + y[3])

\* the sign of a + b*sqrt(2): -1, 0 or 1
Sgn(x) ==
    LET a == x[1]
        b == x[2]
    IN  IF a = 0 /\ b = 0 THEN 0
        ELSE IF a >= 0 /\ b >= 0 THEN 1
        ELSE IF a <= 0 /\ b <= 0 THEN -1
        ELSE IF a > 0 THEN (IF a * a > 2 * b * b THEN 1 ELSE -1)
        ELSE (IF 2 * b * b > a * a THEN 1 ELSE -1)

Gt(x, y) == Sgn(Sub(x, y)) = 1

Leq(x, y) == ~Gt(x, y)

Abs(x) == IF Sgn(x) = -1 THEN Neg(x) ELSE x

\* the largest and the smallest number of a non-empty finite set
MaxOf(S) == CHOOSE m \in S : \A x \in S : Leq(x, m)

MinOf(S) == CHOOSE m \in S : \A x \in S : Leq(m, x)

\* torch.cos and torch.sin at k * pi/4
CosTable ==
    << <<1, 0, 0>>, <<0, 1, 1>>, <<0, 0, 0>>, <<0, -1, 1>>,
       <<-1, 0, 0>>, <<0, -1, 1>>, <<0, 0, 0>>, <<0, 1, 1>> >>

Cos(angle) == CosTable[(angle[1] % 8) + 1]

Sin(angle) == CosTable[((angle[1] - 2) % 8) + 1]

\* the sequence s with every element computed (TLC keeps [i \in 1..n |-> e] as
\* a rule and computes e at each use)
Eager(s) == SubSeq(s, 1, Len(s))

Dot(v, m, j) ==
    Add(Add(Mul(v[1], m[1][j]), Mul(v[2], m[2][j])), Mul(v[3], m[3][j]))

\* v @ m for a row vector v of 3 numbers and a 3 x 3 matrix m
VecMat(v, m) == <<Dot(v, m, 1), Dot(v, m, 2), Dot(v, m, 3)>>

Transpose(m) ==
    << <<m[1][1], m[2][1], m[3][1]>>,
       <<m[1][2], m[2][2], m[3][2]>>,
       <<m[1][3], m[2][3], m[3][3]>> >>


(************************* the BoxSet table ********************************)
Center(r) == <<r[1], r[2], r[3]>>

Dims(r) == <<r[4], r[5], r[6]>>

Yaw(r) == r[7]

\* the row r with the cells of the 0-based columns in cols replaced by f[c]
SetCols(r, cols, f) ==
    Eager([i \in 1..Len(r) |-> IF (i - 1) \in cols THEN f[i - 1] ELSE r[i]])

(************************* geometry ****************************************)
\* utils.limit_period(val, offset, period) = val - floor(val / period + offset) * period,
\* for an angle val and a period in units of pi/4 and the offset on/od
LimitPeriod(val, on, od, period) ==
    LET k == val[1]
        fl == (k * od + on * period) \div (period * od)
    IN  Num(k - fl * period)

\* utils.rotation_3d_in_axis(points, angles, axis=2) for the points pts of one box
Rotation3dInAxis(pts, angle) ==
    LET rot_sin == Sin(angle)
        rot_cos == Cos(angle)
        rot_mat_T == << <<rot_cos, Neg(rot_sin), Zero>>,
                        <<rot_sin, rot_cos, Zero>>,
                        <<Zero, Zero, One>> >>
    IN  Eager([j \in 1..Len(pts) |-> VecMat(pts[j], rot_mat_T)])

\* np.unravel_index(np.arange(8), [2] * 3), row i (0-based)
Unravel(i) == <<Num(i \div 4), Num((i \div 2) % 2), Num(i % 2)>>

\* the corners left in the order of unravel_index
CornerOrderIdentity == <<0, 1, 2, 3, 4, 5, 6, 7>>

\* corners_norm[[0, 1, 3, 2, 4, 5, 7, 6]]
CornerOrder == <<0, 1, 3, 2, 4, 5, 7, 6>>

\* corners_norm after the reordering and the shift to the origin (0.5, 0.5, 0)
CornersNorm ==
    Eager([j \in 1..8 |->
        LET u == Unravel(CornerOrder[j])
        IN  <<Sub(u[1], Half), Sub(u[2], Half), u[3]>>])

\* the 8 corners of the row r
RowCorners(r) ==
    LET dims == Dims(r)
        norm == CornersNorm
        corners == Eager([j \in 1..8 |->
                      <<Mul(dims[1], norm[j][1]), Mul(dims[2], norm[j][2]),
                        Mul(dims[3], norm[j][3])>>])
        rot == Rotation3dInAxis(corners, Yaw(r))
    IN  Eager([j \in 1..8 |->
            <<Add(rot[j][1], r[1]), Add(rot[j][2], r[2]), Add(rot[j][3], r[3])>>])

\* the property corners of a non-empty table t
Corners(t) == Eager([n \in 1..Len(t) |-> RowCorners(t[n])])

\* the property gravity_center
GravityCenter(t) ==
    Eager([n \in 1..Len(t) |->
        <<t[n][1], t[n][2], Add(t[n][3], Mul(t[n][6], Half))>>])

\* the property bev: columns [0, 1, 3, 4, 6]
Bev(t) ==
    Eager([n \in 1..Len(t) |-> <<t[n][1], t[n][2], t[n][4], t[n][5], t[n][7]>>])

\* the comparison as >= instead of >
SwapConditionInclusive(normed) == ~Gt(Mul(Num(PI), <<1, 0, 2>>), normed)

\* the comparison never true: width and height never swapped
SwapConditionNever(normed) == FALSE

\* normed_rotations > np.pi / 4, on an angle in units of pi/4
SwapCondition(normed) == Gt(normed, Mul(Num(PI), <<1, 0, 2>>))

\* the property nearest_bev
NearestBev(t) ==
    Eager([n \in 1..Len(t) |->
        LET b == Bev(t)[n]
            normed_rotations == Abs(LimitPeriod(b[5], 1, 2, PI))
            xywh == IF SwapCondition(normed_rotations)
                    THEN <<b[1], b[2], b[4], b[3]>>
                    ELSE <<b[1], b[2], b[3], b[4]>>
        IN  <<Sub(xywh[1], Mul(xywh[3], Half)), Sub(xywh[2], Mul(xywh[4], Half)),
              Add(xywh[1], Mul(xywh[3], Half)), Add(xywh[2], Mul(xywh[4], Half))>>])

(************************* rotate ******************************************)
\* rot_mat_T with the sign of -rot_sin lost
RotMatTNoSign(angle) ==
    LET rot_sin == Sin(angle)
        rot_cos == Cos(angle)
    IN  << <<rot_cos, rot_sin, Zero>>,
           <<rot_sin, rot_cos, Zero>>,
           <<Zero, Zero, One>> >>

\* rot_mat_T of rotate: the transpose of [[cos, -sin, 0], [sin, cos, 0], [0, 0, 1]]
RotMatT(angle) ==
    LET rot_sin == Sin(angle)
        rot_cos == Cos(angle)
    IN  Transpose(<< <<rot_cos, Neg(rot_sin), Zero>>,
                     <<rot_sin, rot_cos, Zero>>,
                     <<Zero, Zero, One>> >>)

\* self.tensor[:, 0:3] = self.tensor[:, 0:3] @ rot_mat_T, on one row
RotateCenter(r, angle) ==
    LET c == VecMat(Center(r), RotMatT(angle))
    IN  SetCols(r, 0..2, [k \in 0..2 |-> c[k + 1]])

\* the yaw updated with += instead of -=
RotateYawPlus(r, angle) == SetCols(r, {6}, [c \in {6} |-> Add(Yaw(r), angle)])

\* self.tensor[:, 6] -= angle, on one row
RotateYaw(r, angle) == SetCols(r, {6}, [c \in {6} |-> Sub(Yaw(r), angle)])

\* the sizes taken from the extent of the corners before they are rotated
RotateSizeUnrotated(r, angle) ==
    LET corners == RowCorners(r)
        xs == {corners[j][1] : j \in 1..8}
        ys == {corners[j][2] : j \in 1..8}
        new_x_size == Sub(MaxOf(xs), MinOf(xs))
        new_y_size == Sub(MaxOf(ys), MinOf(ys))
    IN  SetCols(r, 3..4, [c \in 3..4 |-> IF c = 3 THEN new_x_size ELSE new_y_size])

\* the else branch: the sizes become the extent of the rotated corners, on one row
\* whose center is already rotated
RotateSize(r, angle) ==
    LET corners == RowCorners(r)
        rot_mat_T == RotMatT(angle)
        corners_rot == Eager([j \in 1..8 |-> VecMat(corners[j], rot_mat_T)])
        xs == {corners_rot[j][1] : j \in 1..8}
        ys == {corners_rot[j][2] : j \in 1..8}
        new_x_size == Sub(MaxOf(xs), MinOf(xs))
        new_y_size == Sub(MaxOf(ys), MinOf(ys))
    IN  SetCols(r, 3..4, [c \in 3..4 |-> IF c = 3 THEN new_x_size ELSE new_y_size])

\* the table after rotate(angle)
RotateTensor(t, wy, angle) ==
    Eager([n \in 1..Len(t) |->
        IF wy THEN RotateYaw(RotateCenter(t[n], angle), angle)
        ELSE RotateSize(RotateCenter(t[n], angle), angle)])

\* points[:, :3] = points[:, :3] @ rot_mat_T
RotatePoints(p, angle) ==
    LET rot_mat_T == RotMatT(angle)
    IN  Eager([m \in 1..Len(p) |-> VecMat(p[m], rot_mat_T)])

\* a call that returns None, or raises
NoRet == [kind |-> "None", val |-> <<>>]

Call(op, angle, dir, pk) ==
    [op |-> op, angle |-> angle, dir |-> dir, pk |-> pk,
     tensor |-> tensor, points |-> points]

\* rotate(angle, points): pk is the kind of the points argument
Rotate(angle, pk) ==
    /\ nops < MaxOps
    /\ nops' = nops + 1
    /\ last' = Call("rotate", angle, "", pk)
    /\ UNCHANGED <<with_yaw, tensor0>>
    /\ IF ~with_yaw /\ Len(tensor) = 0
       THEN \* self.corners: assert len(self.tensor) != 0
            /\ err' = "AssertionError"
            /\ ret' = NoRet
            /\ UNCHANGED <<tensor, points>>
       ELSE /\ tensor' = RotateTensor(tensor, with_yaw, angle)
            /\ IF pk = "None"
               THEN /\ err' = "none"
                    /\ ret' = NoRet
                    /\ UNCHANGED points
               ELSE IF pk \in {"Tensor", "ndarray"}
               THEN /\ err' = "none"
                    /\ points' = RotatePoints(points, angle)
                    /\ ret' = [kind |-> "points, rot_mat_T", val |-> <<points', RotMatT(angle)>>]
               ELSE /\ err' = "ValueError"
                    /\ ret' = NoRet
                    /\ UNCHANGED points

(************************* flip ********************************************)
\* the 0-based columns start::7 of a row of width d
Strided(start, d) == {c \in 0..(d - 1) : c >= start /\ (c - start) % BoxWidth = 0}

\* flip with the horizontal yaw update written yaw + pi instead of -yaw + pi
FlipRowYawPlusPi(r, wy, dir) ==
    IF dir = "horizontal"
    THEN LET neg == SetCols(r, Strided(0, Len(r)), [c \in 0..(Len(r) - 1) |-> Neg(r[c + 1])])
         IN  IF wy THEN SetCols(neg, {6}, [c \in {6} |-> Add(Yaw(neg), Num(PI))])
             ELSE neg
    ELSE IF dir = "vertical"
    THEN LET neg == SetCols(r, Strided(1, Len(r)), [c \in 0..(Len(r) - 1) |-> Neg(r[c + 1])])
         IN  IF wy THEN SetCols(neg, {6}, [c \in {6} |-> Neg(Yaw(neg))])
             ELSE neg
    ELSE r

\* one row after flip(bev_direction)
FlipRow(r, wy, dir) ==
    IF dir = "horizontal"
    THEN LET neg == SetCols(r, Strided(0, Len(r)), [c \in 0..(Len(r) - 1) |-> Neg(r[c + 1])])
         IN  IF wy THEN SetCols(neg, {6}, [c \in {6} |-> Add(Neg(Yaw(neg)), Num(PI))])
             ELSE neg
    ELSE IF dir = "vertical"
    THEN LET neg == SetCols(r, Strided(1, Len(r)), [c \in 0..(Len(r) - 1) |-> Neg(r[c + 1])])
         IN  IF wy THEN SetCols(neg, {6}, [c \in {6} |-> Neg(Yaw(neg))])
             ELSE neg
    ELSE r

FlipTensor(t, wy, dir) == Eager([n \in 1..Len(t) |-> FlipRow(t[n], wy, dir)])

\* points[:, 0] = -points[:, 0] or points[:, 1] = -points[:, 1]
FlipPoints(p, dir) ==
    Eager([m \in 1..Len(p) |->
        IF dir = "horizontal" THEN <<Neg(p[m][1]), p[m][2], p[m][3]>>
        ELSE IF dir = "vertical" THEN <<p[m][1], Neg(p[m][2]), p[m][3]>>
        ELSE p[m]])

\* the assertion left out
DirectionUnchecked(dir) == TRUE

\* assert bev_direction in ('horizontal', 'vertical')
DirectionOk(dir) == dir \in {"horizontal", "vertical"}

\* flip(bev_direction, points): pk is the kind of the points argument
Flip(dir, pk) ==
    /\ nops < MaxOps
    /\ nops' = nops + 1
    /\ last' = Call("flip", Zero, dir, pk)
    /\ UNCHANGED <<with_yaw, tensor0>>
    /\ IF ~DirectionOk(dir)
       THEN /\ err' = "AssertionError"
            /\ ret' = NoRet
            /\ UNCHANGED <<tensor, points>>
       ELSE /\ tensor' = FlipTensor(tensor, with_yaw, dir)
            /\ IF pk = "None"
               THEN /\ err' = "none"
                    /\ ret' = NoRet
                    /\ UNCHANGED points
               ELSE IF pk \in {"Tensor", "ndarray"}
               THEN /\ err' = "none"
                    /\ points' = FlipPoints(points, dir)
                    /\ ret' = [kind |-> "points", val |-> points']
               ELSE \* assert isinstance(points, (torch.Tensor, np.ndarray))
                    /\ err' = "AssertionError"
                    /\ ret' = NoRet
                    /\ UNCHANGED points

(************************* inputs and construction *************************)
\* the angles passed to rotate, in units of pi/4
Angles == {Num(k) : k \in {-2, -1, 1, 2}}

Directions == {"horizontal", "vertical", "diagonal"}

\* the kinds of the points argument: omitted, torch.Tensor, numpy.ndarray, a list
PointKinds == {"None", "Tensor", "ndarray", "list"}

\* the 7 box columns of the constructed rows, the yaw in units of pi/4
Boxes ==
    << <<2, 4, 1, 4, 2, 2, 1>>, <<-2, 0, 0, 2, 2, 6, -2>> >>

\* a constructed row of width d: the box columns (yaw forced to 0 without
\* with_yaw), then the attribute columns
MakeRow(b, d, wy) ==
    Eager([i \in 1..d |->
        IF i = 7 THEN (IF wy THEN Num(b[7]) ELSE Zero)
        ELSE IF i < 7 THEN Num(b[i])
        ELSE Num(i + 2)])

\* the tables of at most maxrows rows, of width d, whose rows are taken in order
\* from boxes
Tables(boxes, maxrows, d, wy) ==
    LET picks == UNION {{f \in [1..n -> 1..Len(boxes)] :
                            \A i \in 1..n, j \in 1..n : i < j => f[i] < f[j]} :
                        n \in 0..maxrows}
    IN  {Eager([i \in 1..Len(f) |-> MakeRow(boxes[f[i]], d, wy)]) : f \in picks}

StartPoints == << <<Num(1), Num(2), Num(3)>> >>

Init ==
    /\ with_yaw \in BOOLEAN
    /\ \E d \in BoxWidth..(BoxWidth + MaxAttrs) :
           tensor \in Tables(Boxes, MaxRows, d, with_yaw)
    /\ tensor0 = tensor
    /\ points = StartPoints
    /\ ret = NoRet
    /\ err = "none"
    /\ last = [op |-> "none", angle |-> Zero, dir |-> "", pk |-> "None",
               tensor |-> tensor, points |-> points]
    /\ nops = 0

Next ==
    \/ \E angle \in Angles, pk \in PointKinds : Rotate(angle, pk)
    \/ \E dir \in Directions, pk \in PointKinds : Flip(dir, pk)

Spec == Init /\ [][Next]_vars

(************************* the derived views *******************************)
\* the property corners
CornersCall ==
    /\ last' = Call("corners", Zero, "", "None")
    /\ IF Len(tensor) = 0
       THEN \* assert len(self.tensor) != 0
            /\ err' = "AssertionError"
            /\ ret' = NoRet
       ELSE /\ err' = "none"
            /\ ret' = [kind |-> "corners", val |-> Corners(tensor)]
    /\ UNCHANGED <<tensor, with_yaw, points, tensor0, nops>>

\* the property gravity_center
GravityCenterCall ==
    /\ last' = Call("gravity_center", Zero, "", "None")
    /\ err' = "none"
    /\ ret' = [kind |-> "gravity_center", val |-> GravityCenter(tensor)]
    /\ UNCHANGED <<tensor, with_yaw, points, tensor0, nops>>

\* the property bev
BevCall ==
    /\ last' = Call("bev", Zero, "", "None")
    /\ err' = "none"
    /\ ret' = [kind |-> "bev", val |-> Bev(tensor)]
    /\ UNCHANGED <<tensor, with_yaw, points, tensor0, nops>>

\* the property nearest_bev
NearestBevCall ==
    /\ last' = Call("nearest_bev", Zero, "", "None")
    /\ err' = "none"
    /\ ret' = [kind |-> "nearest_bev", val |-> NearestBev(tensor)]
    /\ UNCHANGED <<tensor, with_yaw, points, tensor0, nops>>

\* the boxes the views are taken of: centers, sizes (all > 0) and every yaw of
\* -MaxYaw .. MaxYaw, in units of pi/4
QueryCenters == {<<0, 0, 0>>, <<2, -4, 1>>}

QuerySizes == {<<2, 2, 2>>, <<4, 2, 2>>, <<2, 6, 4>>}

QueryBoxes ==
    {<<c[1], c[2], c[3], s[1], s[2], s[3], y>> :
        c \in QueryCenters, s \in QuerySizes, y \in (-MaxYaw)..MaxYaw}

QueryInit ==
    /\ with_yaw \in BOOLEAN
    /\ tensor \in {<<>>} \cup {<<MakeRow(b, BoxWidth, with_yaw)>> : b \in QueryBoxes}
    /\ tensor0 = tensor
    /\ points = StartPoints
    /\ ret = NoRet
    /\ err = "none"
    /\ last = [op |-> "none", angle |-> Zero, dir |-> "", pk |-> "None",
               tensor |-> tensor, points |-> points]
    /\ nops = 0

QueryNext ==
    \/ CornersCall
    \/ GravityCenterCall
    \/ BevCall
    \/ NearestBevCall

QuerySpec == QueryInit /\ [][QueryNext]_vars


(************************* properties **************************************)
Arrays == {"Tensor", "ndarray"}

\* the call last made did rotate or flip the table (it may still have raised
\* on its points argument afterwards)
Rotated == last.op = "rotate" /\ err \in {"none", "ValueError"}

\* the 7 box columns of a row
Box(r) == SubSeq(r, 1, BoxWidth)

\* C1: a rotate or flip call that fails because its points argument is neither
\* a torch tensor nor a numpy array leaves the table as it was before the call.
C1_NoPartialMutation ==
    (/\ last.op \in {"rotate", "flip"}
     /\ last.pk = "list"
     /\ \/ last.op = "rotate" /\ err = "ValueError"
        \/ last.op = "flip" /\ DirectionOk(last.dir) /\ err = "AssertionError")
    => tensor = last.tensor

\* C2: every attribute column (index >= 7) of every row holds the value it had
\* at construction, whatever rotate and flip calls were made.
C2_AttributesPassThrough ==
    \A n \in 1..Len(tensor) : \A i \in (BoxWidth + 1)..Len(tensor[n]) :
        tensor[n][i] = tensor0[n][i]

\* C3: flip with a direction other than 'horizontal' and 'vertical' raises and
\* leaves the table and the points as they were.
C3_UnknownDirectionRejected ==
    (last.op = "flip" /\ last.dir \notin {"horizontal", "vertical"})
    => /\ err = "AssertionError"
       /\ tensor = last.tensor
       /\ points = last.points

C3_Witness ==
    /\ last.op = "flip"
    /\ last.dir = "diagonal"
    /\ last.pk \in Arrays
    /\ Len(tensor) > 0
    /\ nops = 2
    /\ tensor # tensor0

\* C4: with with_yaw, rotate(a) followed by rotate(-a) restores the center and
\* the yaw of every box and leaves the sizes as they were: a step that makes the
\* call rotate(-a) right after rotate(a) ends with the box columns that held
\* before rotate(a).
C4_RotateRoundTrip ==
    [][(/\ with_yaw
        /\ last.op = "rotate"
        /\ last'.op = "rotate"
        /\ nops' = nops + 1
        /\ last'.angle = Neg(last.angle))
       => /\ Len(tensor') = Len(last.tensor)
          /\ \A n \in 1..Len(tensor') : Box(tensor'[n]) = Box(last.tensor[n])]_vars

C4_Witness ==
    /\ with_yaw
    /\ nops = 2
    /\ last.op = "rotate"
    /\ last.angle = Num(-1)
    /\ Len(tensor) > 0
    /\ last.tensor # tensor0
    /\ \A n \in 1..Len(tensor) :
           /\ Center(last.tensor[n]) = VecMat(Center(tensor0[n]), RotMatT(Num(1)))
           /\ Yaw(last.tensor[n]) = Sub(Yaw(tensor0[n]), Num(1))
    /\ tensor = tensor0

\* C5: flip is an involution: a step that makes the call flip(d) right after
\* flip(d), d horizontal or vertical, ends with the centers and the yaws that
\* held before the first of the two, and with the points that held before it
\* when both calls were given the point array.
C5_FlipInvolution ==
    [][(/\ last.op = "flip"
        /\ DirectionOk(last.dir)
        /\ last'.op = "flip"
        /\ nops' = nops + 1
        /\ last'.dir = last.dir)
       => /\ Len(tensor') = Len(last.tensor)
          /\ \A n \in 1..Len(tensor') :
                 /\ Center(tensor'[n]) = Center(last.tensor[n])
                 /\ Yaw(tensor'[n]) = Yaw(last.tensor[n])
          /\ (last.pk \in Arrays /\ last'.pk \in Arrays) => points' = last.points]_vars

C5_Witness ==
    /\ nops = 2
    /\ last.op = "flip"
    /\ last.dir = "horizontal"
    /\ last.pk \in Arrays
    /\ Len(tensor) > 0
    /\ \A n \in 1..Len(tensor) :
           /\ last.tensor[n][1] = Neg(tensor0[n][1])
           /\ last.tensor[n][1] # tensor0[n][1]
           /\ with_yaw => Yaw(last.tensor[n]) = Sub(Num(PI), Yaw(tensor0[n]))
    /\ last.points # StartPoints
    /\ tensor = tensor0
    /\ points = StartPoints

(************************* properties of the views *************************)
\* the sum of the z coordinates of 8 corners
SumZ(cs) ==
    Add(Add(Add(cs[1][3], cs[2][3]), Add(cs[3][3], cs[4][3])),
        Add(Add(cs[5][3], cs[6][3]), Add(cs[7][3], cs[8][3])))

\* C6: of the 8 corners of every box, those at positions 0, 3, 4, 7 have the z
\* of the bottom center, those at positions 1, 2, 5, 6 that z plus size_z, and
\* the mean of the 8 z values is gravity_center.z = cz + sz / 2.
C6_CornerHeights ==
    (last.op = "corners" /\ err = "none")
    => \A n \in 1..Len(tensor) :
           LET cs == ret.val[n]
               cz == tensor[n][3]
               sz == tensor[n][6]
           IN  /\ \A j \in {0, 3, 4, 7} : cs[j + 1][3] = cz
               /\ \A j \in {1, 2, 5, 6} : cs[j + 1][3] = Add(cz, sz)
               /\ Mul(SumZ(cs), <<1, 0, 3>>) = GravityCenter(tensor)[n][3]
               /\ GravityCenter(tensor)[n][3] = Add(cz, Mul(sz, Half))

C6_Witness ==
    /\ last.op = "corners"
    /\ err = "none"
    /\ Len(tensor) = 1
    /\ Yaw(tensor[1]) = Num(3)
    /\ tensor[1][3] = Num(1)
    /\ tensor[1][6] = Num(4)
    /\ ret.val[1][2][3] = Num(5)
    /\ ret.val[1][4][3] = Num(1)

\* the rectangle <<xmin, ymin, xmax, ymax>> contains the point <<x, y, ..>>
Contains(rect, p) ==
    /\ Leq(rect[1], p[1])
    /\ Leq(p[1], rect[3])
    /\ Leq(rect[2], p[2])
    /\ Leq(p[2], rect[4])

\* C7 as claimed: the rectangle of nearest_bev contains the corners of the
\* rotated BEV rectangle of its box, hence their axis-aligned bounding
\* rectangle, for every box.
C7_Envelope ==
    (last.op = "nearest_bev")
    => \A n \in 1..Len(tensor) :
           \A j \in 1..8 : Contains(ret.val[n], RowCorners(tensor[n])[j])

\* C7 as amended: the rectangle of nearest_bev contains the corners of the
\* rotated BEV rectangle of every box whose yaw is a multiple of pi/2, and is
\* then their axis-aligned bounding rectangle.
C7_EnvelopeAtRightAngles ==
    (last.op = "nearest_bev")
    => \A n \in 1..Len(tensor) :
           (Yaw(tensor[n])[1] % 2 = 0)
           => LET cs == RowCorners(tensor[n])
                  xs == {cs[j][1] : j \in 1..8}
                  ys == {cs[j][2] : j \in 1..8}
              IN  /\ \A j \in 1..8 : Contains(ret.val[n], cs[j])
                  /\ ret.val[n] = <<MinOf(xs), MinOf(ys), MaxOf(xs), MaxOf(ys)>>

C7_Witness ==
    /\ last.op = "nearest_bev"
    /\ Len(tensor) = 1
    /\ Yaw(tensor[1]) = Num(-2)
    /\ Center(tensor[1]) = <<Num(2), Num(-4), Num(1)>>
    /\ Dims(tensor[1]) = <<Num(4), Num(2), Num(2)>>
    /\ ret.val[1] = <<Num(1), Num(-6), Num(3), Num(-2)>>

\* floor(k / 4 + 1 / 2): the integer m with m <= k / 4 + 1 / 2 < m + 1
FloorQuarter(k) ==
    CHOOSE m \in (-(MaxYaw + 2))..(MaxYaw + 2) : 4 * m <= k + 2 /\ k + 2 < 4 * m + 4

AbsInt(i) == IF i < 0 THEN -i ELSE i

\* C8: with r = |yaw - floor(yaw / pi + 0.5) * pi|, nearest_bev returns
\* (cx - sy/2, cy - sx/2, cx + sy/2, cy + sx/2) when r > pi/4 and
\* (cx - sx/2, cy - sy/2, cx + sx/2, cy + sy/2) otherwise; a yaw of pi/4 or
\* -pi/4 modulo pi is not swapped; yaw and yaw + pi give the same rectangle.
C8_SwapRule ==
    (last.op = "nearest_bev")
    => \A n \in 1..Len(tensor) :
           LET row == tensor[n]
               k == Yaw(row)[1]
               r == AbsInt(k - FloorQuarter(k) * 4)
               hx == Mul(row[4], Half)
               hy == Mul(row[5], Half)
               plain == <<Sub(row[1], hx), Sub(row[2], hy), Add(row[1], hx), Add(row[2], hy)>>
               swapped == <<Sub(row[1], hy), Sub(row[2], hx), Add(row[1], hy), Add(row[2], hx)>>
           IN  /\ ret.val[n] = IF r > 1 THEN swapped ELSE plain
               /\ (k % 4 \in {1, 3}) => ret.val[n] = plain
               /\ NearestBev(<<[row EXCEPT ![7] = Num(k + 4)]>>)[1] = ret.val[n]

C8_Witness ==
    /\ last.op = "nearest_bev"
    /\ Len(tensor) = 1
    /\ Yaw(tensor[1]) = Num(-5)
    /\ Center(tensor[1]) = <<Num(2), Num(-4), Num(1)>>
    /\ Dims(tensor[1]) = <<Num(2), Num(6), Num(4)>>
    /\ ret.val[1] = <<Num(1), Num(-7), Num(3), Num(-1)>>

=============================================================================
